---- MODULE Spec2Model ----
(***************************************************************************)
(* A model of the grep utility of src/src/main.rs: argument parsing, file  *)
(* collection, the per-line matcher and formatter, and highlight_line.     *)
(*                                                                         *)
(* A Rust String is modelled as the sequence of its chars (Unicode code    *)
(* points); its bytes are the UTF-8 encoding of that sequence.  Searching  *)
(* (find, contains) works on the bytes and yields byte offsets, slicing    *)
(* (&line[a..b]) takes byte offsets and panics off a char boundary, as in  *)
(* Rust.                                                                   *)
(***************************************************************************)
EXTENDS Integers, Sequences, FiniteSets

\* ------------------------------------------------------------- bounds
MaxLineLen == 3
MaxPatLen == 2
MaxPaths == 2
MaxArgs == 3

\* ------------------------------------------------------------ strings
\* The chars lines and patterns are drawn from: a, A, b, U+0130 (capital I
\* with dot above, 2 bytes, lowercases to the 3 bytes of "i" + U+0307) and
\* U+212B (angstrom sign, 3 bytes, lowercases to the 2 bytes of U+00E5).
Sigma == {97, 65, 98, 304, 8491}

StrsOfLen(n) == [1..n -> Sigma]

Strs(n) == UNION {StrsOfLen(k) : k \in 0..n}

\* char::encode_utf8 for code points below U+10000.
Utf8(c) ==
  IF c < 128 THEN <<c>>
  ELSE IF c < 2048 THEN <<192 + (c \div 64), 128 + (c % 64)>>
  ELSE <<224 + (c \div 4096), 128 + ((c \div 64) % 64), 128 + (c % 64)>>

RECURSIVE Bytes(_)
Bytes(s) == IF s = <<>> THEN <<>> ELSE Utf8(Head(s)) \o Bytes(Tail(s))

ByteLen(s) == Len(Bytes(s))

\* Offsets(s)[j] is the byte offset at which char j starts; the last entry
\* is the byte length.  These are the char boundaries of s.
RECURSIVE OffsetsFrom(_, _)
OffsetsFrom(s, at) ==
  IF s = <<>> THEN <<at>>
  ELSE <<at>> \o OffsetsFrom(Tail(s), at + Len(Utf8(Head(s))))

Offsets(s) == OffsetsFrom(s, 0)

IsBoundary(s, b) == \E j \in 1..(Len(s) + 1) : Offsets(s)[j] = b

\* &s[a..b] is defined iff a <= b and both are char boundaries of s
\* (which also bounds them by the byte length); otherwise it panics.
SliceOk(s, a, b) == a <= b /\ IsBoundary(s, a) /\ IsBoundary(s, b)

CharIndex(s, b) == CHOOSE j \in 1..(Len(s) + 1) : Offsets(s)[j] = b

Slice(s, a, b) == SubSeq(s, CharIndex(s, a), CharIndex(s, b) - 1)

\* char::to_lowercase on the chars used here: ASCII A-Z, the two special
\* chars of Sigma, everything else unchanged.
LowerChar(c) ==
  IF c \in 65..90 THEN <<c + 32>>
  ELSE IF c = 304 THEN <<105, 775>>
  ELSE IF c = 8491 THEN <<229>>
  ELSE <<c>>

RECURSIVE ToLowercase(_)
ToLowercase(s) ==
  IF s = <<>> THEN <<>> ELSE LowerChar(Head(s)) \o ToLowercase(Tail(s))

\* hay[i..].find(needle), as an absolute byte offset; -1 is None.
FindFrom(hay, needle, i) ==
  LET cands == {k \in i..(Len(hay) - Len(needle)) :
                  SubSeq(hay, k + 1, k + Len(needle)) = needle}
  IN IF cands = {} THEN -1
     ELSE CHOOSE k \in cands : \A j \in cands : k <= j

Contains(hay, needle) == FindFrom(hay, needle, 0) # -1

\* colored: "\x1b[31m" text "\x1b[0m", or the text alone when colouring is
\* switched off by the environment.
RedOn == <<27, 91, 51, 49, 109>>

RedOff == <<27, 91, 48, 109>>

Red(text, colorize) == IF colorize THEN RedOn \o text \o RedOff ELSE text

\* ---------------------------------------------------------- the matcher
IsMatchFoldLineOnly(line, pattern, ci) ==
  IF ci THEN Contains(Bytes(ToLowercase(line)), Bytes(pattern))
  ELSE Contains(Bytes(line), Bytes(pattern))

IsMatch(line, pattern, ci) ==
  IF ci THEN Contains(Bytes(ToLowercase(line)), Bytes(ToLowercase(pattern)))
  ELSE Contains(Bytes(line), Bytes(pattern))

\* ------------------------------------------------------- highlight_line
\* The while-let loop of either branch: offsets are found in hay (the line,
\* or its lowercase form) and applied to the original line.  spans records
\* each [start, end) the loop slices the line with, the one whose slice
\* panics included.
RECURSIVE HLLoop(_, _, _, _, _, _, _)
HLLoop(line, hay, needle, i, out, spans, colorize) ==
  LET start == FindFrom(hay, needle, i)
      end == start + Len(needle)
  IN IF start = -1
     THEN IF SliceOk(line, i, ByteLen(line))
          THEN [panic |-> FALSE, spans |-> spans,
                out |-> out \o Slice(line, i, ByteLen(line))]
          ELSE [panic |-> TRUE, spans |-> spans, out |-> <<>>]
     ELSE IF ~SliceOk(line, i, start)
          THEN [panic |-> TRUE, spans |-> spans, out |-> <<>>]
          ELSE IF ~SliceOk(line, start, end)
          THEN [panic |-> TRUE, spans |-> Append(spans, <<start, end>>),
                out |-> <<>>]
          ELSE HLLoop(line, hay, needle, end,
                      out \o Slice(line, i, start)
                          \o Red(Slice(line, start, end), colorize),
                      Append(spans, <<start, end>>), colorize)

HighlightLine(line, pattern, case_insensitive, colorize) ==
  IF pattern = <<>>
  THEN [panic |-> FALSE, spans |-> <<>>, out |-> line]
  ELSE IF ~case_insensitive
  THEN HLLoop(line, Bytes(line), Bytes(pattern), 0, <<>>, <<>>, colorize)
  ELSE HLLoop(line, Bytes(ToLowercase(line)), Bytes(ToLowercase(pattern)),
              0, <<>>, <<>>, colorize)

\* ----------------------------------------------- search_one_file, per line
ShouldPrint(is_match, invert) == IF invert THEN ~is_match ELSE is_match

\* display_line: the line is highlighted only under -c, without -v, when it
\* matched.  panic is highlight_line's slice panic.
DisplayLineIgnoringColor(cfg, line, is_match, colorize) ==
  IF ~cfg.invert /\ is_match
  THEN HighlightLine(line, cfg.pattern, cfg.case_insensitive, colorize)
  ELSE [panic |-> FALSE, spans |-> <<>>, out |-> line]

DisplayLine(cfg, line, is_match, colorize) ==
  IF cfg.color /\ ~cfg.invert /\ is_match
  THEN HighlightLine(line, cfg.pattern, cfg.case_insensitive, colorize)
  ELSE [panic |-> FALSE, spans |-> <<>>, out |-> line]

\* path.to_string_lossy().replace('\\', "/")
PathStr(path) == [k \in 1..Len(path) |-> IF path[k] = 92 THEN 47 ELSE path[k]]

\* The decimal digits of a usize, as Display prints them.
RECURSIVE Decimal(_)
Decimal(n) ==
  IF n < 10 THEN <<48 + n>> ELSE Decimal(n \div 10) \o <<48 + (n % 10)>>

ColonSpace == <<58, 32>>

FormatZeroBased(cfg, path_str, idx, display_line) ==
  IF cfg.print_filenames /\ cfg.line_numbers
  THEN path_str \o ColonSpace \o Decimal(idx) \o ColonSpace \o display_line
  ELSE IF cfg.print_filenames THEN path_str \o ColonSpace \o display_line
  ELSE IF cfg.line_numbers THEN Decimal(idx) \o ColonSpace \o display_line
  ELSE display_line

\* The four println! forms.
Format(cfg, path_str, idx, display_line) ==
  IF cfg.print_filenames /\ cfg.line_numbers
  THEN path_str \o ColonSpace \o Decimal(idx + 1) \o ColonSpace \o display_line
  ELSE IF cfg.print_filenames THEN path_str \o ColonSpace \o display_line
  ELSE IF cfg.line_numbers THEN Decimal(idx + 1) \o ColonSpace \o display_line
  ELSE display_line

\* One iteration of the for loop over reader.lines(), for a line that was
\* read without error.
SearchLine(cfg, path, idx, line, colorize) ==
  LET is_match == IsMatch(line, cfg.pattern, cfg.case_insensitive)
      should_print == ShouldPrint(is_match, cfg.invert)
      d == IF should_print
           THEN DisplayLine(cfg, line, is_match, colorize)
           ELSE [panic |-> FALSE, spans |-> <<>>, out |-> line]
  IN [is_match |-> is_match,
      should_print |-> should_print,
      panic |-> d.panic,
      display_line |-> d.out,
      text |-> Format(cfg, PathStr(path), idx, d.out)]

\* ------------------------------------------------------------ parse_args
\* Config::default()
DefaultConfig ==
  [pattern |-> <<>>, paths |-> <<>>, case_insensitive |-> FALSE,
   line_numbers |-> FALSE, invert |-> FALSE, recursive |-> FALSE,
   print_filenames |-> FALSE, color |-> FALSE, help |-> FALSE]

\* The tokens as strings of chars: 45 is '-'.
TokH == <<45, 104>>

TokHelp == <<45, 45, 104, 101, 108, 112>>

TokI == <<45, 105>>

TokN == <<45, 110>>

TokV == <<45, 118>>

TokR == <<45, 114>>

TokBigR == <<45, 82>>

TokF == <<45, 102>>

TokC == <<45, 99>>

\* A flag the parser does not know: "-x".
TokX == <<45, 120>>

StartsWithDash(a) == Len(a) > 0 /\ a[1] = 45

\* The for loop over the arguments after the program name.
RECURSIVE ParseLoop(_, _, _)
ParseLoop(args, cfg, have_pattern) ==
  IF args = <<>> THEN cfg
  ELSE LET arg == Head(args)
           rest == Tail(args)
       IN IF arg = TokH \/ arg = TokHelp THEN [cfg EXCEPT !.help = TRUE]
          ELSE IF arg = TokI
          THEN ParseLoop(rest, [cfg EXCEPT !.case_insensitive = TRUE], have_pattern)
          ELSE IF arg = TokN
          THEN ParseLoop(rest, [cfg EXCEPT !.line_numbers = TRUE], have_pattern)
          ELSE IF arg = TokV
          THEN ParseLoop(rest, [cfg EXCEPT !.invert = TRUE], have_pattern)
          ELSE IF arg = TokR \/ arg = TokBigR
          THEN ParseLoop(rest, [cfg EXCEPT !.recursive = TRUE], have_pattern)
          ELSE IF arg = TokF
          THEN ParseLoop(rest, [cfg EXCEPT !.print_filenames = TRUE], have_pattern)
          ELSE IF arg = TokC
          THEN ParseLoop(rest, [cfg EXCEPT !.color = TRUE], have_pattern)
          ELSE IF StartsWithDash(arg) THEN ParseLoop(rest, cfg, have_pattern)
          ELSE IF ~have_pattern
          THEN ParseLoop(rest, [cfg EXCEPT !.pattern = arg], TRUE)
          ELSE ParseLoop(rest, [cfg EXCEPT !.paths = Append(@, arg)], have_pattern)

\* iter.skip(1): the program name is dropped.
parse_args(args) == ParseLoop(Tail(args), DefaultConfig, FALSE)

\* main: the help flag, or an empty pattern or no path, prints the usage text.
PrintsHelpIgnoringPaths(cfg) == cfg.help \/ cfg.pattern = <<>>

PrintsHelp(cfg) == cfg.help \/ cfg.pattern = <<>> \/ cfg.paths = <<>>

\* ----------------------------------------------------------- the file system
\* The files the program is run on.  "a" and "b" are readable files, "u" is
\* a file whose open is denied, "e" a file whose second line is not valid
\* UTF-8 (reader.lines() yields an error there), "d" a directory holding the
\* files "d/c" and "d/\"; every other path does not exist.
PathA == <<97>>

PathB == <<98>>

PathU == <<117>>

PathE == <<101>>

PathD == <<100>>

PathDC == <<100, 47, 99>>

PathDBackslash == <<100, 47, 92>>

\* A path that does not exist: "m".
PathM == <<109>>

RegularFiles == {PathA, PathB, PathU, PathE, PathDC, PathDBackslash}

Directories == {PathD}

\* Path::is_file
IsFile(p) == p \in RegularFiles

\* File::open fails (permission denied, or the path does not exist).
OpenFails(p) == p = PathU \/ p \notin (RegularFiles \cup Directories)

\* What reader.lines() yields for a line that is not valid UTF-8.
BadLine == <<-1>>

Content(p) ==
  IF p = PathA THEN << <<97, 98>>, <<98>>, <<65, 98>> >>
  ELSE IF p = PathB THEN << <<98>>, <<304, 97>> >>
  ELSE IF p = PathE THEN << <<97>>, BadLine, <<97>> >>
  ELSE IF p = PathDC THEN << <<97>> >>
  ELSE IF p = PathDBackslash THEN << <<98, 97>> >>
  ELSE <<>>

\* The regular files WalkDir::new(p) yields, in each order a directory may
\* list them; a walk's errors (a missing root) are filtered out.
Orderings(S) ==
  {q \in [1..Cardinality(S) -> S] : \A x \in S : \E k \in DOMAIN q : q[k] = x}

WalkFiles(p) == IF p = PathD THEN {PathDC, PathDBackslash} ELSE {}

WalkOrders(p) == Orderings(WalkFiles(p))

AllWalkOrders == UNION {WalkOrders(p) : p \in Directories \cup {PathM}}

\* ------------------------------------------------------------------- run
\* The collection loop: walk[k] is the order in which the walk of paths[k]
\* lists its files.
RECURSIVE CollectFrom(_, _, _, _)
CollectFrom(paths, recursive, walk, k) ==
  IF k > Len(paths) THEN <<>>
  ELSE (IF IsFile(paths[k]) THEN <<paths[k]>>
        ELSE IF recursive THEN walk[k]
        ELSE <<>>) \o CollectFrom(paths, recursive, walk, k + 1)

\* a.to_string_lossy().cmp(&b.to_string_lossy()) is not Greater: the order
\* of the bytes.
RECURSIVE BytesLeq(_, _)
BytesLeq(a, b) ==
  IF a = <<>> THEN TRUE
  ELSE IF b = <<>> THEN FALSE
  ELSE IF Head(a) < Head(b) THEN TRUE
  ELSE IF Head(a) > Head(b) THEN FALSE
  ELSE BytesLeq(Tail(a), Tail(b))

PathLeq(a, b) == BytesLeq(Bytes(a), Bytes(b))

\* files.sort_by(..): a stable sort.
RECURSIVE InsertSorted(_, _)
InsertSorted(sorted, x) ==
  IF sorted = <<>> THEN <<x>>
  ELSE IF PathLeq(Head(sorted), x)
  THEN <<Head(sorted)>> \o InsertSorted(Tail(sorted), x)
  ELSE <<x>> \o sorted

RECURSIVE SortedPrefix(_, _)
SortedPrefix(fs, n) ==
  IF n = 0 THEN <<>> ELSE InsertSorted(SortedPrefix(fs, n - 1), fs[n])

SortFilesNot(fs) == fs

SortFiles(fs) == SortedPrefix(fs, Len(fs))

\* ----------------------------------------------------------------- state
VARIABLES
  argv,      \* env::args(), the program name first
  colorize,  \* whether colored emits escape codes in this environment
  cfg,       \* the Config
  pc,        \* where the program is
  files,     \* run's sorted list of files
  fi,        \* the index in files of the file being searched
  li,        \* the 0-based index of the next line of that file
  out,       \* standard output, one entry per printed line
  log,       \* every line the search loop has handled
  opened,    \* the files opened so far
  err,       \* the io::Error main reports
  usage,     \* whether the usage text was printed
  line,      \* the line a function is applied to on its own
  res        \* the result of that application

vars == <<argv, colorize, cfg, pc, files, fi, li, out, log, opened, err,
          usage, line, res>>

NoRes == [op |-> "none"]

ProgName == <<103>>

\* ------------------------------------------------------------------ main
ParseArgs ==
  /\ pc = "start"
  /\ cfg' = parse_args(argv)
  /\ pc' = "main"
  /\ UNCHANGED <<argv, colorize, files, fi, li, out, log, opened, err, usage,
                 line, res>>

Main ==
  /\ pc = "main"
  /\ IF PrintsHelp(cfg)
     THEN usage' = TRUE /\ pc' = "done"
     ELSE usage' = usage /\ pc' = "run"
  /\ UNCHANGED <<argv, colorize, cfg, files, fi, li, out, log, opened, err,
                 line, res>>

\* run, up to the sort.
Collect ==
  /\ pc = "run"
  /\ \E walk \in [1..Len(cfg.paths) -> AllWalkOrders] :
       /\ \A k \in 1..Len(cfg.paths) : walk[k] \in WalkOrders(cfg.paths[k])
       /\ files' = SortFiles(CollectFrom(cfg.paths, cfg.recursive, walk, 1))
  /\ fi' = 1
  /\ pc' = IF files' = <<>> THEN "done" ELSE "open"
  /\ UNCHANGED <<argv, colorize, cfg, li, out, log, opened, err, usage, line,
                 res>>

\* search_one_file: File::open(path)?
OpenFile ==
  /\ pc = "open"
  /\ IF OpenFails(files[fi])
     THEN /\ pc' = "error"
          /\ err' = <<"open", files[fi]>>
          /\ UNCHANGED <<li, opened>>
     ELSE /\ pc' = "lines"
          /\ li' = 0
          /\ opened' = Append(opened, files[fi])
          /\ err' = err
  /\ UNCHANGED <<argv, colorize, cfg, files, fi, out, log, usage, line, res>>

\* search_one_file: one iteration of the loop over reader.lines().
ReadLine ==
  /\ pc = "lines"
  /\ li < Len(Content(files[fi]))
  /\ LET l == Content(files[fi])[li + 1]
         r == SearchLine(cfg, files[fi], li, l, colorize)
     IN IF l = BadLine
        THEN /\ pc' = "error"
             /\ err' = <<"read", files[fi]>>
             /\ UNCHANGED <<li, out, log>>
        ELSE /\ log' = Append(log, [fi |-> fi, idx |-> li,
                                    is_match |-> r.is_match])
             /\ err' = err
             /\ IF r.should_print /\ r.panic
                THEN pc' = "panicked" /\ UNCHANGED <<li, out>>
                ELSE /\ pc' = pc
                     /\ li' = li + 1
                     /\ out' = IF r.should_print
                               THEN Append(out, [fi |-> fi, path |-> files[fi],
                                                 idx |-> li, line |-> l,
                                                 is_match |-> r.is_match,
                                                 display_line |-> r.display_line,
                                                 text |-> r.text])
                               ELSE out
  /\ UNCHANGED <<argv, colorize, cfg, files, fi, opened, usage, line, res>>

\* The end of a file: run goes on to the next one, or returns Ok(()).
EndOfFile ==
  /\ pc = "lines"
  /\ li = Len(Content(files[fi]))
  /\ fi' = fi + 1
  /\ pc' = IF fi + 1 > Len(files) THEN "done" ELSE "open"
  /\ UNCHANGED <<argv, colorize, cfg, files, li, out, log, opened, err, usage,
                 line, res>>

NextRun == Collect \/ OpenFile \/ ReadLine \/ EndOfFile

Next == ParseArgs \/ Main \/ NextRun

\* ------------------------------------------------------ the whole program
Tokens ==
  {TokH, TokHelp, TokI, TokN, TokV, TokR, TokBigR, TokF, TokC, TokX,
   <<>>, PathA, PathB, PathD}

Argvs == UNION {[1..n -> Tokens] : n \in 0..MaxArgs}

Init ==
  /\ argv \in {<<ProgName>> \o a : a \in Argvs}
  /\ colorize \in BOOLEAN
  /\ cfg = DefaultConfig
  /\ pc = "start"
  /\ files = <<>>
  /\ fi = 0
  /\ li = 0
  /\ out = <<>>
  /\ log = <<>>
  /\ opened = <<>>
  /\ err = <<>>
  /\ usage = FALSE
  /\ line = <<>>
  /\ res = NoRes

Spec == Init /\ [][Next]_vars

\* -------------------------------------------------- run, from any Config
\* The Configs main passes to run: no help, a pattern, at least one path.
RunPatterns == {<<97>>, <<98>>}

RunPathArgs == {PathA, PathB, PathD, PathM, PathU, PathE}

RunPaths == UNION {[1..n -> RunPathArgs] : n \in 1..MaxPaths}

RunConfigs ==
  [pattern : RunPatterns, paths : RunPaths, case_insensitive : BOOLEAN,
   line_numbers : BOOLEAN, invert : BOOLEAN, recursive : BOOLEAN,
   print_filenames : BOOLEAN, color : BOOLEAN, help : {FALSE}]

InitRun ==
  /\ argv = <<>>
  /\ colorize \in BOOLEAN
  /\ cfg \in RunConfigs
  /\ pc = "run"
  /\ files = <<>>
  /\ fi = 0
  /\ li = 0
  /\ out = <<>>
  /\ log = <<>>
  /\ opened = <<>>
  /\ err = <<>>
  /\ usage = FALSE
  /\ line = <<>>
  /\ res = NoRes

SpecRun == InitRun /\ [][NextRun]_vars

\* ------------------------------------- the matcher and highlight_line alone
\* The match decision of search_one_file for one line.
ApplyMatch ==
  /\ pc = "fn"
  /\ res' = [op |-> "match",
             is_match |-> IsMatch(line, cfg.pattern, cfg.case_insensitive)]
  /\ pc' = "applied"
  /\ UNCHANGED <<argv, colorize, cfg, files, fi, li, out, log, opened, err,
                 usage, line>>

ApplyHighlight ==
  /\ pc = "fn"
  /\ res' = [op |-> "highlight",
             hl |-> HighlightLine(line, cfg.pattern, cfg.case_insensitive,
                                  colorize)]
  /\ pc' = "applied"
  /\ UNCHANGED <<argv, colorize, cfg, files, fi, li, out, log, opened, err,
                 usage, line>>

NextFn == ApplyMatch \/ ApplyHighlight

InitFn ==
  /\ argv = <<>>
  /\ colorize \in BOOLEAN
  /\ \E p \in Strs(MaxPatLen), ci \in BOOLEAN :
       cfg = [DefaultConfig EXCEPT !.pattern = p, !.case_insensitive = ci]
  /\ pc = "fn"
  /\ files = <<>>
  /\ fi = 0
  /\ li = 0
  /\ out = <<>>
  /\ log = <<>>
  /\ opened = <<>>
  /\ err = <<>>
  /\ usage = FALSE
  /\ line \in Strs(MaxLineLen)
  /\ res = NoRes

SpecFn == InitFn /\ [][NextFn]_vars

\* ================================================================ claims
\* Containment stated on the chars, not on the bytes.
CharContains(l, p) ==
  \E k \in 0..(Len(l) - Len(p)) : SubSeq(l, k + 1, k + Len(p)) = p

\* C1: the match decision for a line L and a pattern P is L.contains(P) when
\* case_insensitive is false, and lowercase(L).contains(lowercase(P)) when it
\* is true.
Thm_C1_MatchDecision ==
  res.op = "match" =>
    res.is_match =
      (IF cfg.case_insensitive
       THEN CharContains(ToLowercase(line), ToLowercase(cfg.pattern))
       ELSE CharContains(line, cfg.pattern))

\* A case-insensitive match of a line that does not contain the pattern as
\* it is written.
Wit_C1_FoldedMatch ==
  /\ res.op = "match"
  /\ cfg.case_insensitive
  /\ res.is_match
  /\ cfg.pattern # <<>>
  /\ ~CharContains(line, cfg.pattern)

\* C2: for every line of every searched file exactly one output line is
\* written if is_match # invert, and none otherwise.
Cex_C2_OneOutputPerEmittedLine ==
  \A j \in DOMAIN log :
    Cardinality({k \in DOMAIN out :
                   out[k].fi = log[j].fi /\ out[k].idx = log[j].idx})
      = (IF log[j].is_match # cfg.invert THEN 1 ELSE 0)

\* C3: an emitted line is "<path>: <idx+1>: <display_line>" with both
\* print_filenames and line_numbers, "<path>: <display_line>" with the
\* first alone, "<idx+1>: <display_line>" with the second alone, and
\* "<display_line>" with neither, where idx is the line's 0-based index
\* among all lines of its file and the path is shown with forward slashes.
Thm_C3_OutputFormat ==
  \A k \in DOMAIN out :
    LET e == out[k]
        shown == [n \in 1..Len(e.path) |->
                    IF e.path[n] = 92 THEN 47 ELSE e.path[n]]
        name == IF cfg.print_filenames THEN shown \o <<58, 32>> ELSE <<>>
        number == IF cfg.line_numbers
                  THEN Decimal(e.idx + 1) \o <<58, 32>> ELSE <<>>
    IN /\ e.idx + 1 \in DOMAIN Content(e.path)
       /\ Content(e.path)[e.idx + 1] = e.line
       /\ e.text = name \o number \o e.display_line

\* A line printed with its file name and its number 3, the second line its
\* file has emitted.
Wit_C3_NumberedAfterSkippedLine ==
  \E k \in DOMAIN out :
    /\ cfg.print_filenames /\ cfg.line_numbers
    /\ out[k].idx = 2
    /\ Cardinality({n \in 1..(k - 1) : out[n].fi = out[k].fi}) = 1

\* [s, e) of the line is an occurrence of the pattern, under the matcher's
\* case rule.
Occurrence(l, p, ci, s, e) ==
  /\ SliceOk(l, s, e)
  /\ IF ci THEN ToLowercase(Slice(l, s, e)) = ToLowercase(p)
     ELSE Slice(l, s, e) = p

\* C4: for a non-empty pattern the spans of highlight_line are exactly the
\* greedy left-to-right non-overlapping occurrences: each span is the
\* leftmost occurrence starting at or after the previous span's end (0 for
\* the first), and no occurrence follows the last one.  Stated of the calls
\* that return.
Cex_C4_GreedySpans ==
  (res.op = "highlight" /\ cfg.pattern # <<>> /\ ~res.hl.panic) =>
    LET sp == res.hl.spans
        from(j) == IF j = 1 THEN 0 ELSE sp[j - 1][2]
        n == ByteLen(line)
        ci == cfg.case_insensitive
    IN /\ \A j \in DOMAIN sp :
            /\ from(j) <= sp[j][1]
            /\ Occurrence(line, cfg.pattern, ci, sp[j][1], sp[j][2])
            /\ ~\E s \in from(j)..(sp[j][1] - 1) : \E e \in s..n :
                  Occurrence(line, cfg.pattern, ci, s, e)
       /\ ~\E s \in from(Len(sp) + 1)..n : \E e \in s..n :
             Occurrence(line, cfg.pattern, ci, s, e)

\* The output of highlight_line without its escape sequences.
RECURSIVE Strip(_)
Strip(s) ==
  IF s = <<>> THEN <<>>
  ELSE IF Len(s) >= Len(RedOn) /\ SubSeq(s, 1, Len(RedOn)) = RedOn
  THEN Strip(SubSeq(s, Len(RedOn) + 1, Len(s)))
  ELSE IF Len(s) >= Len(RedOff) /\ SubSeq(s, 1, Len(RedOff)) = RedOff
  THEN Strip(SubSeq(s, Len(RedOff) + 1, Len(s)))
  ELSE <<Head(s)>> \o Strip(Tail(s))

\* C5: for every line, every pattern and both case modes highlight_line
\* returns an output which, stripped of the emphasis markers, is the line.
Cex_C5_RoundTrip ==
  res.op = "highlight" => (~res.hl.panic /\ Strip(res.hl.out) = line)

\* C6: for a non-empty pattern, in both case modes, every span [start, end)
\* highlight_line slices the line with has start < end <= the line's length.
Cex_C6_SpanWithinLine ==
  (res.op = "highlight" /\ cfg.pattern # <<>>) =>
    \A j \in DOMAIN res.hl.spans :
      /\ res.hl.spans[j][1] < res.hl.spans[j][2]
      /\ res.hl.spans[j][2] <= ByteLen(line)

\* a <= b in the lexicographic order of the bytes: a is a prefix of b, or
\* they first differ at a byte that is smaller in a.
LexLeq(a, b) ==
  LET x == Bytes(a)
      y == Bytes(b)
  IN \E n \in 0..Len(x) :
       /\ n <= Len(y)
       /\ SubSeq(x, 1, n) = SubSeq(y, 1, n)
       /\ (n = Len(x) \/ (n < Len(y) /\ x[n + 1] < y[n + 1]))

\* How often run collects file f: once for each argument naming it and,
\* under -r, once for each directory argument holding it.
TimesCollected(f) ==
  Cardinality({k \in DOMAIN cfg.paths : cfg.paths[k] = f})
  + (IF cfg.recursive
     THEN Cardinality({k \in DOMAIN cfg.paths :
                         cfg.paths[k] \notin RegularFiles
                         /\ f \in WalkFiles(cfg.paths[k])})
     ELSE 0)

\* C7: files are processed one at a time in the lexicographic order of
\* their path strings and lines in file order: of two output lines the
\* earlier is from a file whose path is <= the later's and, within one
\* processing of a file, from a smaller line index; the order of the files
\* does not depend on the order of the path arguments (the list is ordered,
\* and holds each file as often as the set of arguments collects it).
Thm_C7_OutputOrder ==
  /\ \A i, j \in DOMAIN out :
       i < j =>
         /\ out[i].fi <= out[j].fi
         /\ LexLeq(out[i].path, out[j].path)
         /\ (out[i].fi = out[j].fi => out[i].idx < out[j].idx)
  /\ \A k \in DOMAIN out : out[k].path = files[out[k].fi]
  /\ \A i, j \in DOMAIN opened : i < j => LexLeq(opened[i], opened[j])
  /\ pc # "run" =>
       /\ \A i, j \in DOMAIN files : i < j => LexLeq(files[i], files[j])
       /\ \A i \in DOMAIN files : files[i] \in RegularFiles
       /\ \A f \in RegularFiles :
            Cardinality({i \in DOMAIN files : files[i] = f}) = TimesCollected(f)

\* Two files given in descending order, both with output.
Wit_C7_ArgumentsOutOfOrder ==
  /\ Len(cfg.paths) >= 2
  /\ cfg.paths[1] # cfg.paths[2]
  /\ LexLeq(cfg.paths[2], cfg.paths[1])
  /\ \E i, j \in DOMAIN out :
       i < j /\ out[i].path = cfg.paths[2] /\ out[j].path = cfg.paths[1]

\* The path cannot be opened, or a line of it cannot be read.
CannotOpenOrRead(p) ==
  \/ OpenFails(p)
  \/ \E n \in DOMAIN Content(p) : Content(p)[n] = BadLine

\* C8: a file-not-found, permission-denied or read error on an input path
\* aborts the run in the error state: the run never completes successfully
\* when some path argument could not be opened or read.
Cex_C8_FailureAborts ==
  /\ pc = "error" => err # <<>>
  /\ pc = "done" =>
       \A k \in DOMAIN cfg.paths : ~CannotOpenOrRead(cfg.paths[k])

\* The arguments after the program name, and those that are not flags.
ArgTokens == Tail(argv)

ArgWords == SelectSeq(ArgTokens, LAMBDA a : ~StartsWithDash(a))

HelpAsked == \E k \in DOMAIN ArgTokens : ArgTokens[k] \in {TokH, TokHelp}

\* The program has begun a search.
Searching ==
  \/ pc \in {"run", "open", "lines", "error", "panicked"}
  \/ pc = "done" /\ ~usage
  \/ files # <<>> \/ opened # <<>> \/ out # <<>> \/ log # <<>>

\* C9: with a -h or --help token, or no pattern token, or no path token, the
\* program prints the usage text and searches nothing; a search happens only
\* with a pattern, a path and no help token.
Thm_C9_UsageInsteadOfSearch ==
  (HelpAsked \/ Len(ArgWords) < 2) =>
    /\ ~Searching
    /\ pc = "done" => usage

\* The usage text printed for a help token that follows a pattern and a path.
Wit_C9_HelpAfterPatternAndPath ==
  /\ pc = "done" /\ usage
  /\ HelpAsked
  /\ Len(ArgWords) >= 2
  /\ ArgWords[1] # <<>>

\* C10: an emitted line holds emphasis markers only if color is set, invert
\* is not and the line matched; with color off or invert on display_line is
\* the line itself.
Thm_C10_HighlightOnlyMatches ==
  \A k \in DOMAIN out :
    LET e == out[k]
        marked == \E n \in DOMAIN e.display_line : e.display_line[n] = 27
    IN /\ (marked \/ e.display_line # e.line) =>
            (cfg.color /\ ~cfg.invert /\ e.is_match)
       /\ (~cfg.color \/ cfg.invert) => e.display_line = e.line

\* A line emitted under -v and -c, in an environment that colours.
Wit_C10_InvertedWithColor ==
  /\ cfg.invert /\ cfg.color /\ colorize
  /\ \E k \in DOMAIN out : ~out[k].is_match

====
